---- MODULE Spec2Model ----
(***************************************************************************)
(* A model of src/util.py: the thirteen data-quality checks and the        *)
(* print_summary driver that runs them, in TABLE_CHECK_STEPS order, over   *)
(* one table (a pandas DataFrame) and one shared context dict.             *)
(*                                                                         *)
(* A table is a record                                                     *)
(*   name    : the df.name attribute read by print_summary                 *)
(*   columns : the column labels, in order (duplicates allowed)            *)
(*   dtypes  : the pandas dtype of each column                             *)
(*   rows    : the rows, each a sequence of cell values, one per column    *)
(* A column label is a sequence of pieces, each either the one-character   *)
(* string " " or a run of non-space characters, so that Python's           *)
(* `" " in col` is a test on the label's content.                          *)
(* A cell value is a record tagged by k: "null" (NaN/None/NaT), "int",     *)
(* "str" or "ts" (a timezone-aware UTC Timestamp).  Time is counted in     *)
(* ticks of half a day.                                                    *)
(***************************************************************************)
EXTENDS Integers, Sequences, FiniteSets, TLC

VARIABLES df, context, pc, status, report, now

vars == <<df, context, pc, status, report, now>>

(***************************************************************************)
(* Bounds of the model.                                                    *)
(***************************************************************************)
MaxRows == 2

(***************************************************************************)
(* Cell values.                                                            *)
(***************************************************************************)
Null == [k |-> "null"]
IntV(n) == [k |-> "int", n |-> n]
StrV(s) == [k |-> "str", s |-> s]
\* A timestamp: t is its tick, ns the nanoseconds it lies after the tick.
TsV(t) == [k |-> "ts", t |-> t, ns |-> 0]

IsNull(v) == v.k = "null"

\* Series.dt.date: the date portion of a timestamp.  A tick is half a day,
\* tick 0 is 2024-01-01 00:00 UTC, and the quotient is rounded down.
DateOf(t) == t \div 2

\* The tick of the epoch, 1970-01-01 00:00 UTC: 19723 days before tick 0.
EpochTick == -39446

\* The timestamp strings of the model, with the tick each one parses to.
\* Two of them fall on the same day, and one is later than every clock value.
DateStrings ==
    << [s |-> "2024-01-01 12:00:00+00:00", t |-> 1],
       [s |-> "2024-01-02 00:00:00+00:00", t |-> 2],
       [s |-> "2024-01-02 12:00:00+00:00", t |-> 3],
       [s |-> "2024-01-03 00:00:00+00:00", t |-> 4],
       [s |-> "2024-01-03 12:00:00+00:00", t |-> 5] >>

\* Whether pd.to_datetime can parse the string.
IsDateString(s) == \E i \in 1..Len(DateStrings) : DateStrings[i].s = s

\* pd.to_datetime(s, utc=True) of a string that parses.
ParseDate(s) == DateStrings[CHOOSE i \in 1..Len(DateStrings) : DateStrings[i].s = s].t

\* str(Timestamp) of a timestamp on a tick later than the clock, the only
\* ones that are listed.
FormatTs(t) == DateStrings[CHOOSE i \in 1..Len(DateStrings) : DateStrings[i].t = t].s

\* The strings float() accepts.
NumericStrings == {"7", "42"}

\* Python's order on the strings of the model (code point order).
StrOrder ==
    << "2024-01-01 12:00:00+00:00", "2024-01-02 00:00:00+00:00",
       "2024-01-02 12:00:00+00:00", "2024-01-03 00:00:00+00:00",
       "2024-01-03 12:00:00+00:00", "42", "7", "CA", "NY", "ZZ",
       "en", "female", "male", "not a date", "robot", "x", "xx" >>

StrRank(s) == CHOOSE i \in 1..Len(StrOrder) : StrOrder[i] = s

(***************************************************************************)
(* Column labels.                                                          *)
(***************************************************************************)
cID == <<"ID">>
cRECEIPT_ID == <<"RECEIPT_ID">>
cBARCODE == <<"BARCODE">>
cSTATE == <<"STATE">>
cLANGUAGE == <<"LANGUAGE">>
cGENDER == <<"GENDER">>
cPURCHASE_DATE == <<"PURCHASE_DATE">>
cSCAN_DATE == <<"SCAN_DATE">>
cCREATED_DATE == <<"CREATED_DATE">>
cBIRTH_DATE == <<"BIRTH_DATE">>
cAMOUNT == <<"AMOUNT">>
cNOTE == <<"NOTE">>
cUSER_NAME == <<"USER", " ", "NAME">>
cLEAD_QTY == <<" ", "QTY">>
cTRAIL_TAG == <<"TAG", " ">>

(***************************************************************************)
(* Table helpers.                                                          *)
(***************************************************************************)
NRows(t) == Len(t.rows)
NCols(t) == Len(t.columns)

\* `name in df.columns`
HasColumn(t, name) == \E j \in 1..NCols(t) : t.columns[j] = name

\* The position of a label that occurs in the table (labels are unique in
\* every table that reaches a check using this).
ColIndex(t, name) == CHOOSE j \in 1..NCols(t) : t.columns[j] = name

\* df[col] for the column at position j, as a sequence of cells.
ColumnAt(t, j) == [i \in 1..NRows(t) |-> t.rows[i][j]]

Column(t, name) == ColumnAt(t, ColIndex(t, name))

\* Series.dropna()
DropNa(col) == SelectSeq(col, LAMBDA v : ~IsNull(v))

\* Series.isna().sum()
NullCount(col) == Cardinality({i \in 1..Len(col) : IsNull(col[i])})

\* Series.duplicated().sum(): the entries equal to an earlier entry.
DuplicatedCount(col) ==
    Cardinality({i \in 1..Len(col) : \E j \in 1..(i - 1) : col[j] = col[i]})

\* Series.unique(): the distinct entries in order of first appearance.
RECURSIVE Unique(_)
Unique(col) ==
    IF col = <<>> THEN <<>>
    ELSE LET front == SubSeq(col, 1, Len(col) - 1)
             last == col[Len(col)]
         IN  IF \E j \in 1..Len(front) : front[j] = last
             THEN Unique(front)
             ELSE Append(Unique(front), last)

\* Series.nunique(): the number of distinct non-null entries.
NUnique(col) == Cardinality({col[i] : i \in {j \in 1..Len(col) : ~IsNull(col[j])}})

(***************************************************************************)
(* The context dict and the result of one check.                           *)
(*                                                                         *)
(* context maps each key to the sequence of text fragments appended to it  *)
(* with +=, in order; the first fragment is the header print_summary puts  *)
(* there.  A body fragment carries sec, the section number its text starts *)
(* with (0 when the text has none), and the data interpolated into it.     *)
(* A check returns the table and the context as it leaves them, with       *)
(* raised naming the exception it ended with ("" when it returned).        *)
(***************************************************************************)
HasKey(ctx, key) == key \in DOMAIN ctx

\* context[key] += fragment, for a key the dict holds.
Add(ctx, key, fragment) == [ctx EXCEPT ![key] = Append(@, fragment)]

Returned(t, ctx) == [df |-> t, context |-> ctx, raised |-> ""]

Raised(t, ctx, exception) == [df |-> t, context |-> ctx, raised |-> exception]

(***************************************************************************)
(* get_dataframe_shape                                                     *)
(***************************************************************************)
get_dataframe_shape(t, ctx) ==
    Returned(t, Add(ctx, "body",
        [sec |-> 1, title |-> "Basic Table Information",
         rows |-> NRows(t), cols |-> NCols(t)]))

(***************************************************************************)
(* check_column_spaces                                                     *)
(***************************************************************************)
\* A variant that looks for leading and trailing spaces only.
HasSpace_EdgesOnly(col) == col # <<>> /\ (col[1] = " " \/ col[Len(col)] = " ")

\* `" " in col`
HasSpace(col) == \E i \in 1..Len(col) : col[i] = " "

col_with_spaces(t) == SelectSeq(t.columns, HasSpace)

check_column_spaces(t, ctx) ==
    LET cols == col_with_spaces(t)
    IN  IF cols # <<>>
        THEN Returned(t,
               Add(Add(ctx, "action_items",
                       [item |-> "Column name cleanup", columns |-> cols]),
                   "body",
                   [sec |-> 2, title |-> "Column Name Issues",
                    issue |-> "Columns with spaces", columns |-> cols]))
        ELSE Returned(t,
               Add(ctx, "body",
                   [sec |-> 2, title |-> "Column Name Issues",
                    issue |-> "No column names have extra spaces.",
                    columns |-> <<>>]))

(***************************************************************************)
(* check_duplicate_columns                                                 *)
(***************************************************************************)
\* df.columns[df.columns.duplicated()].tolist(): every occurrence of a label
\* after its first, in column order.
duplicated_columns(t) ==
    LET Later(j) == \E i \in 1..(j - 1) : t.columns[i] = t.columns[j]
        RECURSIVE Pick(_)
        Pick(j) == IF j > NCols(t) THEN <<>>
                   ELSE IF Later(j) THEN <<t.columns[j]>> \o Pick(j + 1)
                   ELSE Pick(j + 1)
    IN  Pick(1)

\* The key check_duplicate_columns appends its remediation action to.
DuplicateColumnsActionKey == "action"

check_duplicate_columns(t, ctx) ==
    LET cols == duplicated_columns(t)
    IN  IF cols # <<>>
        THEN IF HasKey(ctx, DuplicateColumnsActionKey)
             THEN Returned(t,
                    Add(Add(ctx, DuplicateColumnsActionKey,
                            [item |-> "Resolve duplicate columns", columns |-> cols]),
                        "body",
                        [sec |-> 0, title |-> "",
                         issue |-> "Duplicate column names found", columns |-> cols]))
             ELSE Raised(t, ctx, "KeyError")
        ELSE Returned(t,
               Add(ctx, "body",
                   [sec |-> 0, title |-> "",
                    issue |-> "No duplicate column names.", columns |-> <<>>]))

(***************************************************************************)
(* _get_column_data_types and get_column_data_types                        *)
(***************************************************************************)
\* DataFrame.sort_values(by="Null Values", ascending=False): the rows in
\* descending order of null count, rows with equal counts in their order.
RECURSIVE SortByNullsDesc(_)
SortByNullsDesc(info) ==
    IF info = <<>> THEN <<>>
    ELSE LET sorted == SortByNullsDesc(SubSeq(info, 1, Len(info) - 1))
             x == info[Len(info)]
             keep == Cardinality({i \in 1..Len(sorted) : sorted[i].nulls >= x.nulls})
         IN  SubSeq(sorted, 1, keep) \o <<x>> \o SubSeq(sorted, keep + 1, Len(sorted))

\* One row per column: label, dtype, null count, distinct non-null count.
\* It reads the table and returns a new frame; the table is not written.
GetColumnDataTypes(t) ==
    SortByNullsDesc(
        [j \in 1..NCols(t) |->
            [column |-> t.columns[j],
             dtype |-> t.dtypes[j],
             nulls |-> NullCount(ColumnAt(t, j)),
             unique |-> NUnique(ColumnAt(t, j))]])

get_column_data_types(t, ctx) ==
    Returned(t, Add(ctx, "body",
        [sec |-> 3, title |-> "Data Type Overview",
         dtype_info |-> GetColumnDataTypes(t)]))

(***************************************************************************)
(* find_potential_primary_key                                              *)
(***************************************************************************)
\* A variant of the chain that tests ID before RECEIPT_ID.
identifier_columns_IdFirst(t) ==
    IF HasColumn(t, cBARCODE) /\ ~HasColumn(t, cRECEIPT_ID)
    THEN [col |-> cBARCODE, table_name |-> "product"]
    ELSE IF HasColumn(t, cID)
    THEN [col |-> cID, table_name |-> "user"]
    ELSE IF HasColumn(t, cRECEIPT_ID)
    THEN [col |-> cRECEIPT_ID, table_name |-> "transaction"]
    ELSE [col |-> <<>>, table_name |-> ""]

\* The if/elif chain on column presence: the identifier column and the
\* table_name it stands for; table_name "" is the final else branch.
identifier_columns(t) ==
    IF HasColumn(t, cBARCODE) /\ ~HasColumn(t, cRECEIPT_ID)
    THEN [col |-> cBARCODE, table_name |-> "product"]
    ELSE IF HasColumn(t, cRECEIPT_ID)
    THEN [col |-> cRECEIPT_ID, table_name |-> "transaction"]
    ELSE IF HasColumn(t, cID)
    THEN [col |-> cID, table_name |-> "user"]
    ELSE [col |-> <<>>, table_name |-> ""]

\* The messages appended for the identifier column: one when it has missing
\* values, then one when its non-missing values repeat.
invalid_identifiers(t) ==
    LET sel == identifier_columns(t)
        nan_count == NullCount(Column(t, sel.col))
        duplicate_count == DuplicatedCount(DropNa(Column(t, sel.col)))
    IN  (IF nan_count > 0
         THEN <<[column |-> sel.col, table_name |-> sel.table_name,
                 problem |-> "missing values (NaN)", count |-> nan_count]>>
         ELSE <<>>)
        \o
        (IF duplicate_count > 0
         THEN <<[column |-> sel.col, table_name |-> sel.table_name,
                 problem |-> "duplicate values (excluding NaN)",
                 count |-> duplicate_count]>>
         ELSE <<>>)

\* The columns whose non-missing values never repeat, in column order.
unique_identifiers(t) ==
    LET RECURSIVE Pick(_)
        Pick(j) == IF j > NCols(t) THEN <<>>
                   ELSE IF DuplicatedCount(DropNa(ColumnAt(t, j))) = 0
                   THEN <<t.columns[j]>> \o Pick(j + 1)
                   ELSE Pick(j + 1)
    IN  Pick(1)

find_potential_primary_key(t, ctx) ==
    LET sel == identifier_columns(t)
    IN  IF sel.table_name = ""
        THEN Returned(t, Add(ctx, "body",
                [sec |-> 4, title |-> "Potential Unique Identifiers",
                 table_name |-> "",
                 issue |-> "No unique identifier columns found in this table.",
                 unique_identifiers |-> <<>>, invalid_identifiers |-> <<>>]))
        ELSE LET invalid == invalid_identifiers(t)
                 unique == unique_identifiers(t)
                 finding ==
                     [sec |-> 4, title |-> "Potential Unique Identifiers in table",
                      table_name |-> sel.table_name,
                      issue |-> IF unique # <<>>
                                THEN "Potential unique identifier(s)"
                                ELSE "No unique and non-null identifier detected.",
                      unique_identifiers |-> unique,
                      invalid_identifiers |-> invalid]
             IN  IF invalid # <<>>
                 THEN Returned(t,
                        Add(Add(ctx, "action_items",
                                [item |-> "Resolve issues with unique identifiers",
                                 invalid_identifiers |-> invalid]),
                            "body", finding))
                 ELSE Returned(t, Add(ctx, "body", finding))

(***************************************************************************)
(* check_null_columns                                                      *)
(***************************************************************************)
\* The arithmetic of line 155 is float64 arithmetic: every operation gives
\* the double nearest to its exact result, a tie going to the even mantissa.
\* A positive double is a record [m, e] of value m * 2^e.  Its mantissa m
\* has 53 bits, the first of them 1, and is kept as three limbs <<a, b, c>>
\* in base Limb, m = a * Limb^2 + b * Limb + c, so that Limb / 4 <= a and
\* a < Limb / 2.
Limb == 2^18

\* The limbs of a number divided by 2^s, for s below 18; what is shifted
\* out of the last limb is lost.
ShiftRight(limbs, s) ==
    [i \in 1..Len(limbs) |->
        (limbs[i] \div 2^s)
          + (IF i > 1 THEN (limbs[i - 1] % 2^s) * 2^(18 - s) ELSE 0)]

\* A mantissa plus one.
Increment(m) ==
    IF m[3] + 1 < Limb THEN <<m[1], m[2], m[3] + 1>>
    ELSE IF m[2] + 1 < Limb THEN <<m[1], m[2] + 1, 0>>
    ELSE <<m[1] + 1, 0, 0>>

\* The double nearest to (the number of 53 + s bits that four limbs spell)
\* * 2^e, for s >= 1; `sticky` tells that the exact value is a little more.
RoundToDouble(limbs, s, sticky, e) ==
    LET dropped == limbs[4] % 2^s
        guard == dropped \div 2^(s - 1)
        rest == sticky \/ dropped % 2^(s - 1) # 0
        shifted == ShiftRight(limbs, s)
        keep == <<shifted[2], shifted[3], shifted[4]>>
        up == guard = 1 /\ (rest \/ keep[3] % 2 = 1)
        m == IF up THEN Increment(keep) ELSE keep
    IN  IF m[1] = Limb \div 2
        THEN [m |-> <<Limb \div 4, 0, 0>>, e |-> e + s + 1]
        ELSE [m |-> m, e |-> e + s]

\* n / r = (n2 / r2) * 2^s with 1 <= n2 / r2 < 2.
RECURSIVE Normalise(_, _, _)
Normalise(n, r, s) ==
    IF n < r THEN Normalise(2 * n, r, s - 1)
    ELSE IF n >= 2 * r THEN Normalise(n, 2 * r, s + 1)
    ELSE [n |-> n, r |-> r, s |-> s]

\* The next nine bits of rem / r after the binary point, and what is left.
DivStep(rem, r) == [d |-> (512 * rem) \div r, rem |-> (512 * rem) % r]

\* nulls / rows, for positive integers: the quotient to 55 bits, rounded.
FloatDivide(n, r) ==
    LET q == Normalise(n, r, 0)
        s1 == DivStep(q.n - q.r, q.r)
        s2 == DivStep(s1.rem, q.r)
        s3 == DivStep(s2.rem, q.r)
        s4 == DivStep(s3.rem, q.r)
        s5 == DivStep(s4.rem, q.r)
        s6 == DivStep(s5.rem, q.r)
    IN  RoundToDouble(<<1, 512 * s1.d + s2.d, 512 * s3.d + s4.d, 512 * s5.d + s6.d>>,
                      2, s6.rem # 0, q.s - 54)

\* x * 100: the exact product has 59 or 60 bits.
FloatTimes100(x) ==
    LET lo == 100 * x.m[3]
        mid == 100 * x.m[2] + lo \div Limb
        hi == 100 * x.m[1] + mid \div Limb
        limbs == <<hi \div Limb, hi % Limb, mid % Limb, lo % Limb>>
    IN  RoundToDouble(limbs, IF limbs[1] >= 32 THEN 7 ELSE 6, FALSE, x.e)

\* Bit i of a mantissa, bit 0 the least significant.
Bit(m, i) == (m[3 - i \div 18] \div 2^(i % 18)) % 2

\* rint(x): the nearest integer, a tie going to the even one.  The doubles
\* rounded here are at most 10000, so x.e <= -39.
Rint(x) ==
    LET places == 0 - x.e
        whole == x.m[1] \div 2^(places - 36)
        rest == \E i \in 0..(places - 2) : Bit(x.m, i) = 1
    IN  IF places > 53 THEN 0
        ELSE IF Bit(x.m, places - 1) = 1 /\ (rest \/ whole % 2 = 1)
        THEN whole + 1 ELSE whole

\* (nulls / rows * 100).round(2), in hundredths of a percent: round(2) is
\* rint(x * 100) / 100.  1 of 32 is 3.12, 23 of 160 is 14.37 and 49 of 160
\* is 30.63.
NullPercentage(nulls, rows) ==
    IF nulls = 0 THEN 0
    ELSE Rint(FloatTimes100(FloatTimes100(FloatDivide(nulls, rows))))

check_null_columns(t, ctx) ==
    LET dtype_info == GetColumnDataTypes(t)
        rows == NRows(t)
        Labels(info) == [i \in 1..Len(info) |-> info[i].column]
    IN  IF \A i \in 1..Len(dtype_info) : dtype_info[i].nulls = rows
        THEN Returned(t,
               Add(Add(ctx, "action_items",
                       [item |-> "Handle fully NULL columns",
                        columns |-> Labels(dtype_info)]),
                   "body",
                   [sec |-> 5, title |-> "Null Column Analysis",
                    issue |-> "Fully NULL columns",
                    columns |-> Labels(dtype_info), details |-> <<>>]))
        ELSE IF \E i \in 1..Len(dtype_info) : dtype_info[i].nulls > 0
        THEN LET partial == SelectSeq(dtype_info, LAMBDA r : r.nulls > 0)
                 details == [i \in 1..Len(partial) |->
                                [column |-> partial[i].column,
                                 nulls |-> partial[i].nulls,
                                 percentage |-> NullPercentage(partial[i].nulls, rows)]]
             IN  Returned(t,
                   Add(Add(ctx, "action_items",
                           [item |-> "Handle missing data", details |-> details]),
                       "body",
                       [sec |-> 5, title |-> "Null Column Analysis",
                        issue |-> "Partially NULL columns",
                        columns |-> Labels(partial), details |-> details]))
        ELSE Returned(t,
               Add(ctx, "body",
                   [sec |-> 5, title |-> "Null Column Analysis",
                    issue |-> "No NULL columns detected. All columns are fully populated.",
                    columns |-> <<>>, details |-> <<>>]))

(***************************************************************************)
(* check_fully_duplicate_rows                                              *)
(***************************************************************************)
\* The sort key of a cell: missing values last, otherwise by value.  A
\* column of the model holds one kind of value apart from missing ones.
KindRank(v) == CASE v.k = "int" -> 0 [] v.k = "ts" -> 1 [] v.k = "str" -> 2 [] OTHER -> 3

PayloadRank(v) ==
    CASE v.k = "int" -> v.n [] v.k = "ts" -> v.t [] v.k = "str" -> StrRank(v.s) [] OTHER -> 0

\* Within one tick, timestamps are ordered by their nanoseconds.
SubRank(v) == IF v.k = "ts" THEN v.ns ELSE 0

CellLess(v, w) ==
    \/ KindRank(v) < KindRank(w)
    \/ KindRank(v) = KindRank(w) /\ PayloadRank(v) < PayloadRank(w)
    \/ /\ KindRank(v) = KindRank(w)
       /\ PayloadRank(v) = PayloadRank(w)
       /\ SubRank(v) < SubRank(w)

\* Lexicographic order of two rows over all columns, first column first.
RowLess(r, q) ==
    \E j \in 1..Len(r) :
        /\ CellLess(r[j], q[j])
        /\ \A i \in 1..(j - 1) : r[i] = q[i]

\* DataFrame.sort_values(by=df.columns.tolist())
RECURSIVE SortRows(_)
SortRows(rows) ==
    IF rows = <<>> THEN <<>>
    ELSE LET sorted == SortRows(SubSeq(rows, 1, Len(rows) - 1))
             x == rows[Len(rows)]
             keep == Cardinality({i \in 1..Len(sorted) : ~RowLess(x, sorted[i])})
         IN  SubSeq(sorted, 1, keep) \o <<x>> \o SubSeq(sorted, keep + 1, Len(sorted))

\* The number of example rows shown: head(5).
ExampleLimit == 5

HeadRows(rows, n) == SubSeq(rows, 1, IF Len(rows) < n THEN Len(rows) ELSE n)

\* A variant that counts with keep=False: every row that has a copy.
fully_duplicate_KeepFalse(t) ==
    Cardinality({i \in 1..NRows(t) :
        \E j \in 1..NRows(t) : j # i /\ t.rows[j] = t.rows[i]})

\* df.duplicated().sum(): the rows equal, over all columns, to an earlier row.
fully_duplicate(t) == DuplicatedCount(t.rows)

\* df[df.duplicated(keep=False)]: every row equal to some other row.
DuplicatedKeepFalse(t) ==
    LET RECURSIVE Pick(_)
        Pick(i) == IF i > NRows(t) THEN <<>>
                   ELSE IF \E j \in 1..NRows(t) : j # i /\ t.rows[j] = t.rows[i]
                   THEN <<t.rows[i]>> \o Pick(i + 1)
                   ELSE Pick(i + 1)
    IN  Pick(1)

\* A variant that also drops the repeated rows from the table it is given
\* (drop_duplicates(inplace=True)).
check_fully_duplicate_rows_DropInPlace(t, ctx) ==
    Returned([t EXCEPT !.rows = Unique(t.rows)],
        Add(ctx, "body",
            [sec |-> 6, title |-> "Duplicate Row Analysis",
             issue |-> "No fully duplicate rows.",
             count |-> DuplicatedCount(t.rows), examples |-> <<>>]))

check_fully_duplicate_rows(t, ctx) ==
    LET count == fully_duplicate(t)
    IN  IF count = 0
        THEN Returned(t,
               Add(ctx, "body",
                   [sec |-> 6, title |-> "Duplicate Row Analysis",
                    issue |-> "No fully duplicate rows.",
                    count |-> 0, examples |-> <<>>]))
        ELSE LET duplicate_examples ==
                     HeadRows(SortRows(DuplicatedKeepFalse(t)), ExampleLimit)
             IN  Returned(t,
                   Add(Add(ctx, "action_items",
                           [item |-> "Remove duplicate rows", count |-> count,
                            examples |-> duplicate_examples]),
                       "body",
                       [sec |-> 6, title |-> "Duplicate Row Analysis",
                        issue |-> "There are duplicate rows.",
                        count |-> count, examples |-> duplicate_examples]))

(***************************************************************************)
(* check_mixed_data_types                                                  *)
(***************************************************************************)
\* The classification of one non-missing value.
check_column_type(x) ==
    CASE x.k = "int" -> "numeric"
      [] x.k = "str" -> IF x.s \in NumericStrings THEN "numeric" ELSE "string"
      [] OTHER -> "Timestamp"

types_in_col(col) ==
    LET present == DropNa(col)
    IN  Unique([i \in 1..Len(present) |-> check_column_type(present[i])])

check_mixed_data_types(t, ctx) ==
    LET RECURSIVE Pick(_)
        Pick(j) == IF j > NCols(t) THEN <<>>
                   ELSE IF Len(types_in_col(ColumnAt(t, j))) > 1
                   THEN <<[column |-> t.columns[j],
                           types |-> types_in_col(ColumnAt(t, j))]>> \o Pick(j + 1)
                   ELSE Pick(j + 1)
        column_types == Pick(1)
        mixed_type_cols == [i \in 1..Len(column_types) |-> column_types[i].column]
    IN  IF mixed_type_cols # <<>>
        THEN Returned(t,
               Add(Add(ctx, "action_items",
                       [item |-> "Resolve mixed data type issues",
                        columns |-> mixed_type_cols]),
                   "body",
                   [sec |-> 7, title |-> "Mixed Data Type Check",
                    issue |-> "Columns with mixed data types",
                    columns |-> mixed_type_cols, types |-> column_types]))
        ELSE Returned(t,
               Add(ctx, "body",
                   [sec |-> 7, title |-> "Mixed Data Type Check",
                    issue |-> "No columns have mixed data types.",
                    columns |-> <<>>, types |-> <<>>]))

(***************************************************************************)
(* check_date_validity                                                     *)
(***************************************************************************)
date_columns == <<cPURCHASE_DATE, cSCAN_DATE, cCREATED_DATE, cBIRTH_DATE>>

found_date_columns(t) == SelectSeq(date_columns, LAMBDA col : HasColumn(t, col))

\* Whether pd.to_datetime(column, utc=True) can convert every cell.  The
\* date-bearing columns of the model hold strings, timestamps and missing
\* values.
Convertible(col) ==
    \A i \in 1..Len(col) : col[i].k = "str" => IsDateString(col[i].s)

\* pd.to_datetime(v, utc=True) of one cell: a missing value becomes NaT, a
\* string its parsed timestamp, a timestamp stays, and an integer n is a
\* count of nanoseconds from the epoch (the integers of the model are
\* non-negative and far below half a day of nanoseconds).
ToDatetime(v) ==
    CASE v.k = "str" -> TsV(ParseDate(v.s))
      [] v.k = "ts" -> v
      [] v.k = "int" -> [k |-> "ts", t |-> EpochTick, ns |-> v.n]
      [] OTHER -> Null

\* df[col] = pd.to_datetime(df[col], utc=True): the column at position j is
\* replaced and takes the datetime dtype; nothing else is written.
AssignDatetime(t, j) ==
    [t EXCEPT !.dtypes[j] = "datetime64[ns, UTC]",
              !.rows = [i \in 1..NRows(t) |-> [t.rows[i] EXCEPT ![j] = ToDatetime(@)]]]

\* df[df[col] > pd.Timestamp.now(tz='UTC')][col].unique(), rendered with str.
future_dates(col, clock) ==
    LET late == SelectSeq(col, LAMBDA v : v.k = "ts" /\ v.t > clock)
        distinct == Unique(late)
    IN  [i \in 1..Len(distinct) |-> FormatTs(distinct[i].t)]

\* The loop over found_date_columns, from position n on: the table as the
\* loop leaves it, the messages collected, and whether a conversion raised.
RECURSIVE ConvertAndScan(_, _, _, _, _)
ConvertAndScan(t, found, n, invalid_dates, clock) ==
    IF n > Len(found)
    THEN [df |-> t, invalid_dates |-> invalid_dates, raised |-> ""]
    ELSE LET j == ColIndex(t, found[n])
         IN  IF ~Convertible(ColumnAt(t, j))
             THEN [df |-> t, invalid_dates |-> invalid_dates, raised |-> "ValueError"]
             ELSE LET t2 == AssignDatetime(t, j)
                      future == future_dates(ColumnAt(t2, j), clock)
                  IN  ConvertAndScan(t2, found, n + 1,
                          IF future # <<>>
                          THEN Append(invalid_dates, [column |-> found[n], dates |-> future])
                          ELSE invalid_dates,
                          clock)

check_date_validity(t, ctx, clock) ==
    LET found == found_date_columns(t)
    IN  IF found = <<>>
        THEN Returned(t,
               Add(ctx, "body",
                   [sec |-> 8, title |-> "Date Validity Check",
                    issue |-> "No date columns in this table.",
                    invalid_dates |-> <<>>]))
        ELSE LET scan == ConvertAndScan(t, found, 1, <<>>, clock)
             IN  IF scan.raised # ""
                 THEN Raised(scan.df, ctx, scan.raised)
                 ELSE IF scan.invalid_dates # <<>>
                 THEN Returned(scan.df,
                        Add(Add(ctx, "action_items",
                                [item |-> "Correct invalid dates",
                                 invalid_dates |-> scan.invalid_dates]),
                            "body",
                            [sec |-> 8, title |-> "Date Validity Check",
                             issue |-> "future dates",
                             invalid_dates |-> scan.invalid_dates]))
                 ELSE Returned(scan.df,
                        Add(ctx, "body",
                            [sec |-> 8, title |-> "Date Validity Check",
                             issue |-> "All date columns are valid.",
                             invalid_dates |-> <<>>]))

(***************************************************************************)
(* check_transaction_date_order and check_customer_date_order              *)
(***************************************************************************)
\* Series.dt is defined on datetime columns only; on any other dtype the
\* attribute access raises AttributeError.
HasDt(t, name) == t.dtypes[ColIndex(t, name)] = "datetime64[ns, UTC]"

\* len(df[df[early].dt.date < df[late].dt.date]): the rows whose two dates
\* are both present and whose `early` date portion is before the `late` one.
DateOrderViolations(t, early, late) ==
    LET a == Column(t, early)
        b == Column(t, late)
    IN  Cardinality({i \in 1..NRows(t) :
            /\ a[i].k = "ts"
            /\ b[i].k = "ts"
            /\ DateOf(a[i].t) < DateOf(b[i].t)})

\* The body shared by the two date order checks: `early` must not be before
\* `late`.
DateOrderCheck(t, ctx, early, late, sec, title, item) ==
    IF HasColumn(t, early) /\ HasColumn(t, late)
    THEN IF ~(HasDt(t, early) /\ HasDt(t, late))
         THEN Raised(t, ctx, "AttributeError")
         ELSE LET invalid == DateOrderViolations(t, early, late)
              IN  IF invalid > 0
                  THEN Returned(t,
                         Add(Add(ctx, "action_items",
                                 [item |-> item, rows |-> invalid]),
                             "body",
                             [sec |-> sec, title |-> title,
                              issue |-> "rows in the wrong order", rows |-> invalid]))
                  ELSE Returned(t,
                         Add(ctx, "body",
                             [sec |-> sec, title |-> title,
                              issue |-> "All entries are in order.", rows |-> 0]))
    ELSE Returned(t,
           Add(ctx, "body",
               [sec |-> sec, title |-> title,
                issue |-> "No related columns found.", rows |-> 0]))

check_transaction_date_order(t, ctx) ==
    DateOrderCheck(t, ctx, cSCAN_DATE, cPURCHASE_DATE, 9,
        "Date Order Check (check if receipt scan date is after purchase date)",
        "Correct date order: 'scan_date' should be after 'purchase_date'")

check_customer_date_order(t, ctx) ==
    DateOrderCheck(t, ctx, cCREATED_DATE, cBIRTH_DATE, 10,
        "Date Order Check (check if customers account created date is after birth date)",
        "Correct date order: 'created_date' should be after 'birth_date'")

(***************************************************************************)
(* check_data_consistency                                                  *)
(***************************************************************************)
\* The allow-lists of the check.
valid_states ==
    {"AL", "AK", "AZ", "AR", "CA", "CO", "CT", "DC", "DE", "FL", "GA", "HI", "ID",
     "IL", "IN", "IA", "KS", "KY", "LA", "ME", "MD", "MA", "MI", "MN", "MS", "MO",
     "MT", "NE", "NV", "NH", "NJ", "NM", "NY", "NC", "ND", "OH", "OK", "OR", "PA",
     "PR", "RI", "SC", "SD", "TN", "TX", "UT", "VT", "VA", "WA", "WV", "WI", "WY"}

valid_languages ==
    {"en", "es-419", "fr", "de", "it", "pt", "zh", "ja", "ko", "ar", "ru", "hi",
     "en-US", "en-GB"}

valid_genders ==
    {"female", "male", "non_binary", "transgender", "prefer_not_to_say",
     "not_listed", "unknown"}

\* A variant that lets a missing value pass as valid.
IsIn_MissingPasses(v, valid) == IsNull(v) \/ (v.k = "str" /\ v.s \in valid)

\* Series.isin(valid) of one cell: a string of the list; a missing value or
\* any other value is not in it.
IsIn(v, valid) == v.k = "str" /\ v.s \in valid

\* str(value), and 'NaN' for a missing value.  The categorical columns of
\* the model hold strings and missing values.
RenderInvalid(v) == IF IsNull(v) THEN "NaN" ELSE v.s

\* df[~df[col].isin(valid)][col].unique(), each value rendered.
InvalidValues(t, name, valid) ==
    LET distinct == Unique(SelectSeq(Column(t, name), LAMBDA v : ~IsIn(v, valid)))
    IN  [i \in 1..Len(distinct) |-> RenderInvalid(distinct[i])]

\* One `if len(invalid) > 0:` block: a line in the body and an action item.
ReportInvalid(ctx, invalid, line, item) ==
    IF Len(invalid) > 0
    THEN Add(Add(ctx, "body",
                 [sec |-> 0, title |-> "", issue |-> line, values |-> invalid]),
             "action_items", [item |-> item, values |-> invalid])
    ELSE ctx

ConsistencyTitle ==
    "Data Consistency Check (check if STATE, LANGUAGE, and GENDER are consistent)"

check_data_consistency(t, ctx) ==
    IF HasColumn(t, cSTATE) /\ HasColumn(t, cLANGUAGE) /\ HasColumn(t, cGENDER)
    THEN LET invalid_states == InvalidValues(t, cSTATE, valid_states)
             invalid_languages == InvalidValues(t, cLANGUAGE, valid_languages)
             invalid_genders == InvalidValues(t, cGENDER, valid_genders)
             c0 == Add(ctx, "body",
                       [sec |-> 11, title |-> ConsistencyTitle,
                        issue |-> "", values |-> <<>>])
             c1 == ReportInvalid(c0, invalid_states,
                       "Invalid states detected", "Resolve invalid states")
             c2 == ReportInvalid(c1, invalid_languages,
                       "Invalid languages detected", "Resolve invalid languages")
             c3 == ReportInvalid(c2, invalid_genders,
                       "Invalid gender values detected", "Resolve invalid gender values")
         IN  Returned(t, c3)
    ELSE Returned(t,
           Add(ctx, "body",
               [sec |-> 11, title |-> ConsistencyTitle,
                issue |-> "No related columns found.", values |-> <<>>]))

(***************************************************************************)
(* describe_data                                                           *)
(***************************************************************************)
\* The positions of the columns select_dtypes(include=[np.number]) keeps.
NumericColumns(t) == {j \in 1..NCols(t) : t.dtypes[j] \in {"int64", "float64"}}

\* DataFrame.empty: either axis has length 0.
SelectNumericEmpty(t) == NumericColumns(t) = {} \/ NRows(t) = 0

RECURSIVE SumOf(_)
SumOf(col) == IF col = <<>> THEN 0 ELSE col[1].n + SumOf(Tail(col))

\* df.describe(include=[np.number]) of one numeric column: count, mean (the
\* total over the count), min and max; with no value in the column the
\* three are NaN.  The standard deviation and the quartiles are left out of
\* the model.
Describe(t, j) ==
    LET present == DropNa(ColumnAt(t, j))
        values == {present[i].n : i \in 1..Len(present)}
        Least(S) == CHOOSE x \in S : \A y \in S : x <= y
        Most(S) == CHOOSE x \in S : \A y \in S : x >= y
    IN  [column |-> t.columns[j],
         count |-> Len(present),
         mean |-> IF present = <<>> THEN Null
                  ELSE [k |-> "ratio", total |-> SumOf(present), count |-> Len(present)],
         min |-> IF present = <<>> THEN Null ELSE IntV(Least(values)),
         max |-> IF present = <<>> THEN Null ELSE IntV(Most(values))]

describe_data(t, ctx) ==
    IF SelectNumericEmpty(t)
    THEN Returned(t,
           Add(ctx, "body",
               [sec |-> 12, title |-> "Summary Statistics",
                issue |-> "No numeric columns found.", summary |-> <<>>]))
    ELSE LET RECURSIVE Pick(_)
             Pick(j) == IF j > NCols(t) THEN <<>>
                        ELSE IF j \in NumericColumns(t)
                        THEN <<Describe(t, j)>> \o Pick(j + 1)
                        ELSE Pick(j + 1)
         IN  Returned(t,
               Add(ctx, "body",
                   [sec |-> 12, title |-> "Summary Statistics",
                    issue |-> "", summary |-> Pick(1)]))

(***************************************************************************)
(* The tables print_summary is run on.                                     *)
(*                                                                         *)
(* A schema lists, per column, its label, the kind of its dtype and the    *)
(* values its cells are drawn from.  A table has up to MaxRows rows.       *)
(***************************************************************************)
D1 == StrV("2024-01-01 12:00:00+00:00")
D2 == StrV("2024-01-02 00:00:00+00:00")
D3 == StrV("2024-01-02 12:00:00+00:00")
D4 == StrV("2024-01-03 00:00:00+00:00")
D5 == StrV("2024-01-03 12:00:00+00:00")
NotADate == StrV("not a date")

Field(label, kind, dom) == [label |-> label, kind |-> kind, dom |-> dom]

Schemas ==
    { <<Field(cID, "number", {Null, IntV(1), IntV(2)})>>,
      <<Field(cID, "number", {Null, IntV(1), IntV(2)}),
        Field(cBARCODE, "number", {IntV(1), IntV(2)})>>,
      <<Field(cRECEIPT_ID, "number", {Null, IntV(1), IntV(2)}),
        Field(cBARCODE, "number", {IntV(1)}),
        Field(cID, "number", {IntV(1), IntV(2)})>>,
      <<Field(cBARCODE, "number", {IntV(1), IntV(2)}),
        Field(cRECEIPT_ID, "number", {Null, IntV(1)})>>,
      <<Field(cID, "number", {IntV(1), IntV(2)}),
        Field(cID, "number", {IntV(1), IntV(2)})>>,
      <<Field(cLEAD_QTY, "number", {IntV(1), IntV(2)}),
        Field(cNOTE, "object", {StrV("x")}),
        Field(cLEAD_QTY, "number", {Null, IntV(1)})>>,
      <<Field(cUSER_NAME, "object", {StrV("x"), StrV("7")}),
        Field(cID, "number", {IntV(1), IntV(2)}),
        Field(cLEAD_QTY, "number", {Null, IntV(1)})>>,
      <<Field(cTRAIL_TAG, "object", {Null, StrV("x")}),
        Field(cNOTE, "object", {Null, StrV("7"), StrV("x")})>>,
      <<Field(cSTATE, "object", {Null, StrV("CA"), StrV("ZZ")}),
        Field(cLANGUAGE, "object", {StrV("en"), StrV("xx")}),
        Field(cGENDER, "object", {Null, StrV("male"), StrV("robot")})>>,
      <<Field(cSTATE, "object", {Null, StrV("NY"), StrV("ZZ")}),
        Field(cGENDER, "object", {StrV("female"), StrV("robot")})>>,
      <<Field(cSCAN_DATE, "object", {Null, D2, D5, NotADate}),
        Field(cPURCHASE_DATE, "object", {Null, D1, D3})>>,
      <<Field(cSCAN_DATE, "datetime", {Null, TsV(2), TsV(5)}),
        Field(cPURCHASE_DATE, "datetime", {Null, TsV(1), TsV(3)})>>,
      <<Field(cID, "number", {IntV(1), IntV(2)}),
        Field(cBIRTH_DATE, "object", {D2, D3}),
        Field(cCREATED_DATE, "object", {Null, D1, D4})>>,
      <<Field(cCREATED_DATE, "datetime", {TsV(1), TsV(4)}),
        Field(cBIRTH_DATE, "object", {Null, D2, NotADate})>>,
      <<Field(cCREATED_DATE, "number", {IntV(1), IntV(2)}),
        Field(cBIRTH_DATE, "object", {Null, D1})>>,
      <<Field(cAMOUNT, "number", {Null, IntV(1), IntV(2)}),
        Field(cNOTE, "object", {Null, StrV("x"), StrV("7")})>> }

\* The rows a schema allows: one cell per column, from the column's values.
RECURSIVE RowsOf(_)
RowsOf(schema) ==
    IF schema = <<>> THEN {<<>>}
    ELSE {Append(r, v) : r \in RowsOf(SubSeq(schema, 1, Len(schema) - 1)),
                         v \in schema[Len(schema)].dom}

\* The dtype pandas gives a column of the kind: a numeric column holding a
\* missing value is float64, otherwise int64.
DtypeOf(kind, col) ==
    CASE kind = "number" -> IF NullCount(col) > 0 THEN "float64" ELSE "int64"
      [] kind = "datetime" -> "datetime64[ns, UTC]"
      [] OTHER -> "object"

MakeTable(schema, rows) ==
    [name |-> "table",
     columns |-> [j \in 1..Len(schema) |-> schema[j].label],
     dtypes |-> [j \in 1..Len(schema) |->
                    DtypeOf(schema[j].kind, [i \in 1..Len(rows) |-> rows[i][j]])],
     rows |-> rows]

Tables ==
    UNION {{MakeTable(schema, rows) :
               rows \in UNION {[1..n -> RowsOf(schema)] : n \in 0..MaxRows}} :
           schema \in Schemas}

\* The values pd.Timestamp.now(tz='UTC') takes during a run, in ticks.
Clock == {3, 4}

(***************************************************************************)
(* print_summary                                                           *)
(***************************************************************************)
\* A variant with two neighbouring steps exchanged.
TABLE_CHECK_STEPS_Exchanged ==
    << "get_dataframe_shape", "check_column_spaces", "check_duplicate_columns",
       "get_column_data_types", "check_null_columns", "find_potential_primary_key",
       "check_fully_duplicate_rows", "check_mixed_data_types", "check_date_validity",
       "check_transaction_date_order", "check_customer_date_order",
       "check_data_consistency", "describe_data" >>

TABLE_CHECK_STEPS ==
    << "get_dataframe_shape", "check_column_spaces", "check_duplicate_columns",
       "get_column_data_types", "find_potential_primary_key", "check_null_columns",
       "check_fully_duplicate_rows", "check_mixed_data_types", "check_date_validity",
       "check_transaction_date_order", "check_customer_date_order",
       "check_data_consistency", "describe_data" >>

\* The context dict print_summary creates.
NewContext(t) ==
    [body |-> <<[sec |-> 0,
                 title |-> "Here is the result of the initial data check for of table",
                 table |-> t.name]>>,
     action_items |-> <<[item |-> "Action required:"]>>]

\* The returned string: the body, then the action items.
Render(ctx) == <<ctx["body"], ctx["action_items"]>>

Init ==
    /\ df \in Tables
    /\ now \in Clock
    /\ context = NewContext(df)
    /\ pc = 1
    /\ status = "running"
    /\ report = <<>>

\* `step(df, context)` for the step the loop is at: the check leaves the
\* table and the context as `result` has them; an exception ends the run.
Step(name, result) ==
    /\ status = "running"
    /\ pc <= Len(TABLE_CHECK_STEPS)
    /\ TABLE_CHECK_STEPS[pc] = name
    /\ df' = result.df
    /\ context' = result.context
    /\ IF result.raised = ""
       THEN pc' = pc + 1 /\ status' = status
       ELSE pc' = pc /\ status' = result.raised
    /\ UNCHANGED <<report, now>>

GetDataframeShape == Step("get_dataframe_shape", get_dataframe_shape(df, context))

CheckColumnSpaces == Step("check_column_spaces", check_column_spaces(df, context))

CheckDuplicateColumns ==
    Step("check_duplicate_columns", check_duplicate_columns(df, context))

GetColumnDataTypesStep ==
    Step("get_column_data_types", get_column_data_types(df, context))

FindPotentialPrimaryKey ==
    Step("find_potential_primary_key", find_potential_primary_key(df, context))

CheckNullColumns == Step("check_null_columns", check_null_columns(df, context))

CheckFullyDuplicateRows ==
    Step("check_fully_duplicate_rows", check_fully_duplicate_rows(df, context))

CheckMixedDataTypes ==
    Step("check_mixed_data_types", check_mixed_data_types(df, context))

CheckDateValidity ==
    Step("check_date_validity", check_date_validity(df, context, now))

CheckTransactionDateOrder ==
    Step("check_transaction_date_order", check_transaction_date_order(df, context))

CheckCustomerDateOrder ==
    Step("check_customer_date_order", check_customer_date_order(df, context))

CheckDataConsistency ==
    Step("check_data_consistency", check_data_consistency(df, context))

DescribeData == Step("describe_data", describe_data(df, context))

\* The return statement, once the loop is over.
Return ==
    /\ status = "running"
    /\ pc = Len(TABLE_CHECK_STEPS) + 1
    /\ status' = "returned"
    /\ report' = Render(context)
    /\ UNCHANGED <<df, context, pc, now>>

Next ==
    \/ GetDataframeShape
    \/ CheckColumnSpaces
    \/ CheckDuplicateColumns
    \/ GetColumnDataTypesStep
    \/ FindPotentialPrimaryKey
    \/ CheckNullColumns
    \/ CheckFullyDuplicateRows
    \/ CheckMixedDataTypes
    \/ CheckDateValidity
    \/ CheckTransactionDateOrder
    \/ CheckCustomerDateOrder
    \/ CheckDataConsistency
    \/ DescribeData
    \/ Return

Spec == Init /\ [][Next]_vars

(***************************************************************************)
(* Properties.                                                             *)
(***************************************************************************)
Position(name) == CHOOSE k \in 1..Len(TABLE_CHECK_STEPS) : TABLE_CHECK_STEPS[k] = name

\* The named check has just returned: the loop is at the step after it, and
\* no later step has touched the table or the context.
JustRan(name) == pc = Position(name) + 1 /\ status \in {"running", "returned"}

\* The named check has just raised.
JustRaised(name) == pc = Position(name) /\ status \notin {"running", "returned"}

Body == context["body"]

LastBody == Body[Len(Body)]

\* The action items appended so far under a label.
Items(label) == SelectSeq(context["action_items"], LAMBDA a : a.item = label)

Range(seq) == {seq[i] : i \in 1..Len(seq)}

\* seq lists its elements in the order they have in `of`, none twice.
IsSubsequenceInOrder(seq, of) ==
    \E f \in [1..Len(seq) -> 1..Len(of)] :
        /\ \A i \in 1..Len(seq) : of[f[i]] = seq[i]
        /\ \A i, j \in 1..Len(seq) : i < j => f[i] < f[j]

\* The section numbers of the numbered findings of a body, in body order.
SectionNumbers(body) ==
    LET numbered == SelectSeq(body, LAMBDA f : f.sec # 0)
    IN  [i \in 1..Len(numbered) |-> numbered[i].sec]

\* C1 as stated: a returned report is the body followed by the action items,
\* and its body holds exactly 13 numbered findings, in the order of the checks.
C1_ThirteenNumberedFindings ==
    status = "returned" =>
        /\ report = <<context["body"], context["action_items"]>>
        /\ Len(SectionNumbers(report[1])) = 13
        /\ \A i, j \in 1..Len(SectionNumbers(report[1])) :
               i < j => SectionNumbers(report[1])[i] < SectionNumbers(report[1])[j]

\* C1 amended: a returned report is the body followed by the action items;
\* the body holds, after its header, one finding per check in the order the
\* checks are run; twelve of them are numbered, 1 to 12 in order; the finding
\* of check_duplicate_columns is the unnumbered one, between sections 2 and 3;
\* and the only other unnumbered fragments are the lines check_data_consistency
\* puts under section 11.
C1_ReportInCheckOrder ==
    status = "returned" =>
        LET body == report[1]
            Unnumbered == {i \in 2..Len(body) : body[i].sec = 0}
        IN  /\ report = <<context["body"], context["action_items"]>>
            /\ body[1].sec = 0 /\ report[2][1].item = "Action required:"
            /\ SectionNumbers(body) = [i \in 1..12 |-> i]
            /\ body[2].sec = 1 /\ body[3].sec = 2 /\ body[4].sec = 0 /\ body[5].sec = 3
            /\ body[4].issue = "No duplicate column names."
            /\ body[Len(body)].sec = 12
            /\ \A i \in Unnumbered \ {4} :
                   /\ \E j \in 1..(i - 1) : body[j].sec = 11
                   /\ body[i].issue \in {"Invalid states detected",
                                         "Invalid languages detected",
                                         "Invalid gender values detected"}

\* A run that returned a report with action items from several checks.
C1_Witness ==
    /\ status = "returned"
    /\ Len(report[2]) >= 3
    /\ Len(report[1]) > 14

\* The distinct rows of the table.
DistinctRows(t) == {t.rows[i] : i \in 1..NRows(t)}

\* The action item of check_fully_duplicate_rows is there exactly when count
\* is positive, once, with that count.
DuplicateRowsAction(count) ==
    IF count > 0
    THEN Len(Items("Remove duplicate rows")) = 1
         /\ Items("Remove duplicate rows")[1].count = count
    ELSE Items("Remove duplicate rows") = <<>>

\* C2 as stated: the count reported by check_fully_duplicate_rows is the
\* number of rows identical to at least one other row of the table.
C2_CountsRowsWithATwin ==
    JustRan("check_fully_duplicate_rows") =>
        /\ LastBody.sec = 6
        /\ LastBody.count =
               Cardinality({i \in 1..NRows(df) :
                   \E j \in 1..NRows(df) : j # i /\ df.rows[j] = df.rows[i]})
        /\ DuplicateRowsAction(LastBody.count)

\* C2 amended: the count reported by check_fully_duplicate_rows, in the body
\* and in the action item, is the number of rows minus the number of distinct
\* rows (every row identical to an earlier row); the action item is appended
\* exactly when the count is positive, so never for a table with zero rows.
C2_CountsRepeatedRows ==
    JustRan("check_fully_duplicate_rows") =>
        /\ LastBody.sec = 6
        /\ LastBody.count = NRows(df) - Cardinality(DistinctRows(df))
        /\ DuplicateRowsAction(LastBody.count)
        /\ NRows(df) = 0 => LastBody.count = 0 /\ Items("Remove duplicate rows") = <<>>

\* check_fully_duplicate_rows has run on a table where every row is a copy of
\* another row, and reported one fewer than the number of rows.
C2_Witness ==
    /\ JustRan("check_fully_duplicate_rows")
    /\ NRows(df) >= 2
    /\ Cardinality(DistinctRows(df)) = 1
    /\ LastBody.count = NRows(df) - 1
    /\ Len(Items("Remove duplicate rows")) = 1

\* The columns of the table that hold at least one missing value.
ColumnsWithNulls(t) == {j \in 1..NCols(t) : \E i \in 1..NRows(t) : IsNull(t.rows[i][j])}

\* C3: check_null_columns fires exactly one classification, consistent with
\* the null counts: 'no nulls', with no action item, whenever no column holds
\* a missing value; 'fully null' only when every column is entirely null;
\* 'partially null' otherwise, listing exactly the columns that hold one.
C3_NullClassification ==
    JustRan("check_null_columns") =>
        /\ LastBody.sec = 5
        /\ IF ColumnsWithNulls(df) = {}
           THEN /\ LastBody.issue = "No NULL columns detected. All columns are fully populated."
                /\ Items("Handle fully NULL columns") = <<>>
                /\ Items("Handle missing data") = <<>>
           ELSE IF \A j \in 1..NCols(df) : \A i \in 1..NRows(df) : IsNull(df.rows[i][j])
           THEN LastBody.issue = "Fully NULL columns"
           ELSE /\ LastBody.issue = "Partially NULL columns"
                /\ Range(LastBody.columns) = {df.columns[j] : j \in ColumnsWithNulls(df)}

\* The labels that occur more than once in the table.
RepeatedLabels(t) ==
    {t.columns[j] : j \in {k \in 1..NCols(t) :
                             \E i \in 1..NCols(t) : i # k /\ t.columns[i] = t.columns[k]}}

\* C4: check_duplicate_columns never raises; on a table with a repeated label
\* it appends a finding listing the repeated labels and one action item, on
\* any other table a 'no duplicate column names' finding and no action item.
C4_DuplicateColumnsReported ==
    /\ ~JustRaised("check_duplicate_columns")
    /\ JustRan("check_duplicate_columns") =>
           IF RepeatedLabels(df) # {}
           THEN /\ LastBody.issue = "Duplicate column names found"
                /\ Range(LastBody.columns) = RepeatedLabels(df)
                /\ Len(Items("Resolve duplicate columns")) = 1
           ELSE /\ LastBody.issue = "No duplicate column names."
                /\ Items("Resolve duplicate columns") = <<>>

\* The identifier column has a missing value, or two equal non-missing values.
IdentifierHasIssue(t, label) ==
    LET col == Column(t, label)
    IN  \/ \E i \in 1..Len(col) : IsNull(col[i])
        \/ \E i, j \in 1..Len(col) : i < j /\ ~IsNull(col[i]) /\ col[i] = col[j]

\* The finding of find_potential_primary_key is for table_name, every issue
\* it reports is about the column `label`, and the action item is there
\* exactly when that column has an issue.
IdentifierChecked(table_name, label) ==
    /\ LastBody.table_name = table_name
    /\ \A i \in 1..Len(LastBody.invalid_identifiers) :
           LastBody.invalid_identifiers[i].column = label
    /\ IF IdentifierHasIssue(df, label)
       THEN /\ LastBody.invalid_identifiers # <<>>
            /\ Len(Items("Resolve issues with unique identifiers")) = 1
       ELSE /\ LastBody.invalid_identifiers = <<>>
            /\ Items("Resolve issues with unique identifiers") = <<>>

\* C5: find_potential_primary_key selects the identifier by column presence
\* alone: BARCODE without RECEIPT_ID is 'product' checking BARCODE; RECEIPT_ID
\* is 'transaction' checking RECEIPT_ID whatever else is present; ID without
\* the other two is 'user' checking ID; none of the three is a 'no unique
\* identifier columns found' finding with no action item.  The action item is
\* appended exactly when the selected column has a missing value or a
\* duplicate among its non-missing values.
C5_IdentifierByPresence ==
    JustRan("find_potential_primary_key") =>
        /\ LastBody.sec = 4
        /\ HasColumn(df, cBARCODE) /\ ~HasColumn(df, cRECEIPT_ID)
               => IdentifierChecked("product", cBARCODE)
        /\ HasColumn(df, cRECEIPT_ID) => IdentifierChecked("transaction", cRECEIPT_ID)
        /\ ~HasColumn(df, cRECEIPT_ID) /\ ~HasColumn(df, cBARCODE) /\ HasColumn(df, cID)
               => IdentifierChecked("user", cID)
        /\ ~HasColumn(df, cRECEIPT_ID) /\ ~HasColumn(df, cBARCODE) /\ ~HasColumn(df, cID)
               => /\ LastBody.issue = "No unique identifier columns found in this table."
                  /\ Items("Resolve issues with unique identifiers") = <<>>

\* A table with RECEIPT_ID, BARCODE and ID was classified 'transaction', and
\* its RECEIPT_ID column had an issue that produced the action item.
C5_Witness ==
    /\ JustRan("find_potential_primary_key")
    /\ HasColumn(df, cRECEIPT_ID) /\ HasColumn(df, cID) /\ HasColumn(df, cBARCODE)
    /\ LastBody.table_name = "transaction"
    /\ Len(Items("Resolve issues with unique identifiers")) = 1

\* The fragments check_data_consistency appended: the last section 11
\* fragment of the body and everything after it.
ConsistencyFragments ==
    LET start == CHOOSE i \in 1..Len(Body) :
                     Body[i].sec = 11 /\ \A j \in (i + 1)..Len(Body) : Body[j].sec = 0
    IN  SubSeq(Body, start, Len(Body))

\* Column `label` has a value outside `valid` exactly when the check appended
\* one finding line and one action item for it; a missing value is listed as
\* 'NaN'.
InvalidReported(label, valid, line, item) ==
    LET col == Column(df, label)
        bad == {i \in 1..Len(col) : ~(col[i].k = "str" /\ col[i].s \in valid)}
        lines == SelectSeq(ConsistencyFragments, LAMBDA f : f.issue = line)
    IN  IF bad # {}
        THEN /\ Len(lines) = 1
             /\ Len(Items(item)) = 1
             /\ Items(item)[1].values = lines[1].values
             /\ Range(lines[1].values) =
                    {IF IsNull(col[i]) THEN "NaN" ELSE col[i].s : i \in bad}
        ELSE lines = <<>> /\ Items(item) = <<>>

\* C6: check_data_consistency validates only when STATE, LANGUAGE and GENDER
\* are all present; with any of them absent it appends only the 'no related
\* columns' finding and no action item, whatever the values present.  With
\* all three present, each column with an invalid value (a missing value is
\* invalid and shown as 'NaN') gets its own finding line and action item.
C6_AllOrNothing ==
    JustRan("check_data_consistency") =>
        IF HasColumn(df, cSTATE) /\ HasColumn(df, cLANGUAGE) /\ HasColumn(df, cGENDER)
        THEN /\ ConsistencyFragments[1].issue = ""
             /\ InvalidReported(cSTATE, valid_states,
                    "Invalid states detected", "Resolve invalid states")
             /\ InvalidReported(cLANGUAGE, valid_languages,
                    "Invalid languages detected", "Resolve invalid languages")
             /\ InvalidReported(cGENDER, valid_genders,
                    "Invalid gender values detected", "Resolve invalid gender values")
        ELSE /\ Len(ConsistencyFragments) = 1
             /\ LastBody.issue = "No related columns found."
             /\ Items("Resolve invalid states") = <<>>
             /\ Items("Resolve invalid languages") = <<>>
             /\ Items("Resolve invalid gender values") = <<>>

\* STATE and GENDER are present with invalid values, LANGUAGE is absent, and
\* the check reported 'no related columns'.
C6_Witness ==
    /\ JustRan("check_data_consistency")
    /\ HasColumn(df, cSTATE) /\ HasColumn(df, cGENDER) /\ ~HasColumn(df, cLANGUAGE)
    /\ \E i \in 1..NRows(df) : Column(df, cSTATE)[i] = StrV("ZZ")
    /\ \E i \in 1..NRows(df) : Column(df, cGENDER)[i] = StrV("robot")
    /\ LastBody.issue = "No related columns found."

\* The labels of the table that hold a space character.
LabelsWithSpace(t) ==
    {t.columns[j] : j \in {k \in 1..NCols(t) : " " \in Range(t.columns[k])}}

\* C7: on a table with a label containing a space (leading, trailing or
\* inner) check_column_spaces flags exactly the labels containing one, in
\* column order, and appends exactly one action item; on any other table it
\* appends none.
C7_FlagsLabelsWithSpace ==
    JustRan("check_column_spaces") =>
        /\ LastBody.sec = 2
        /\ Range(LastBody.columns) = LabelsWithSpace(df)
        /\ IsSubsequenceInOrder(LastBody.columns, df.columns)
        /\ IF LabelsWithSpace(df) # {}
           THEN /\ Len(Items("Column name cleanup")) = 1
                /\ Items("Column name cleanup")[1].columns = LastBody.columns
           ELSE Items("Column name cleanup") = <<>>

\* A label with an inner space and a label with a leading space were both
\* flagged, in column order, with one action item.
C7_Witness ==
    /\ JustRan("check_column_spaces")
    /\ LastBody.columns = <<cUSER_NAME, cLEAD_QTY>>
    /\ Len(Items("Column name cleanup")) = 1

\* C8: describe_data reports statistics whenever the table has a numeric
\* column, for every row count including zero, reports 'no numeric columns
\* found' only when it has none, never raises and appends no action item.
C8_StatisticsForNumericColumns ==
    [][pc = Position("describe_data") /\ status = "running" =>
          LET finding == context'["body"][Len(context'["body"])]
          IN  /\ status' = "running"
              /\ context'["action_items"] = context["action_items"]
              /\ finding.sec = 12
              /\ (\E j \in 1..NCols(df) : df.dtypes[j] \in {"int64", "float64"})
                     <=> finding.issue # "No numeric columns found."]_vars

\* The check of the given name, called on a table with a context.
RunCheck(name, t, ctx, clock) ==
    CASE name = "get_dataframe_shape" -> get_dataframe_shape(t, ctx)
      [] name = "check_column_spaces" -> check_column_spaces(t, ctx)
      [] name = "check_duplicate_columns" -> check_duplicate_columns(t, ctx)
      [] name = "get_column_data_types" -> get_column_data_types(t, ctx)
      [] name = "find_potential_primary_key" -> find_potential_primary_key(t, ctx)
      [] name = "check_null_columns" -> check_null_columns(t, ctx)
      [] name = "check_fully_duplicate_rows" -> check_fully_duplicate_rows(t, ctx)
      [] name = "check_mixed_data_types" -> check_mixed_data_types(t, ctx)
      [] name = "check_date_validity" -> check_date_validity(t, ctx, clock)
      [] name = "check_transaction_date_order" -> check_transaction_date_order(t, ctx)
      [] name = "check_customer_date_order" -> check_customer_date_order(t, ctx)
      [] name = "check_data_consistency" -> check_data_consistency(t, ctx)
      [] name = "describe_data" -> describe_data(t, ctx)

\* C9: no check depends on another check's side effect.  Whenever a step
\* changes the table, every check raises or not on the table after the step
\* as it does on the table before it, and check_transaction_date_order and
\* check_customer_date_order append the same finding and action text to a
\* fresh context on both.
C9_ChecksIndependent ==
    [][df' # df =>
          \A name \in Range(TABLE_CHECK_STEPS) :
              LET before == RunCheck(name, df, NewContext(df), now)
                  after == RunCheck(name, df', NewContext(df'), now)
              IN  /\ before.raised = after.raised
                  /\ name \in {"check_transaction_date_order", "check_customer_date_order"}
                         => before.context = after.context]_vars

\* Column j of the table differs between two tables of the same shape.
ColumnChanged(t, u, j) ==
    \/ t.dtypes[j] # u.dtypes[j]
    \/ \E i \in 1..NRows(t) : t.rows[i][j] # u.rows[i][j]

\* C10: during a run the table is changed only by check_date_validity, and
\* only in those of PURCHASE_DATE, SCAN_DATE, CREATED_DATE, BIRTH_DATE that
\* are present: every other step, the steps calling the dtype/null/unique
\* summary helper among them, leaves the column list, the row count, the row
\* order and every column as they were.
C10_OnlyDateColumnsChange ==
    [][/\ pc # Position("check_date_validity") => df' = df
       /\ df'.name = df.name
       /\ df'.columns = df.columns
       /\ NRows(df') = NRows(df)
       /\ \A i \in 1..NRows(df) : Len(df'.rows[i]) = Len(df.rows[i])
       /\ \A j \in 1..NCols(df) :
              ColumnChanged(df, df', j) =>
                  df.columns[j] \in {cPURCHASE_DATE, cSCAN_DATE, cCREATED_DATE, cBIRTH_DATE}
      ]_vars

\* check_date_validity has converted the string columns BIRTH_DATE and
\* CREATED_DATE of a table and left its ID column as it was.
C10_Witness ==
    /\ JustRan("check_date_validity")
    /\ HasColumn(df, cID) /\ HasColumn(df, cBIRTH_DATE) /\ HasColumn(df, cCREATED_DATE)
    /\ NRows(df) > 0
    /\ df.dtypes[ColIndex(df, cID)] = "int64"
    /\ df.dtypes[ColIndex(df, cBIRTH_DATE)] = "datetime64[ns, UTC]"
    /\ \E i \in 1..NRows(df) : Column(df, cCREATED_DATE)[i].k = "ts"

====
